---- MODULE Spec2Model ----
(***************************************************************************)
(* A model of the download/install orchestration core of itch:             *)
(*   - the downloads reducer (rank laws, enqueue, retry, prioritize),      *)
(*   - the download watcher (tick, start, cancelCurrent, discard, the      *)
(*     settling of a transfer task),                                       *)
(*   - the deploy engine (staging -> destination with a receipt),          *)
(*   - asTask, the wrapper that runs work as a tracked task,               *)
(*   - the check for a game update of one cave, and the pass over caves,   *)
(*   - performLaunch,                                                      *)
(*   - cleanupDiscarded, and prepare of the install core,                  *)
(*   - the revert of a cave to an older build,                             *)
(*   - the writes to a cave's record (playtime, install result),           *)
(*   - the throttled progress events of a transfer task,                   *)
(*   - the periodic update loop started by sessionReady,                   *)
(*   - the saving of the preferences file.                                 *)
(***************************************************************************)
EXTENDS Integers, FiniteSets, Sequences, TLC

\* ------------------------------------------------------------------ bounds
\* download ids ever generated (uuid(): every downloadStarted gets a fresh id)
MaxItems == 2
\* distinct games
NumGames == 2
\* ranks are kept within -MaxRank .. MaxRank
MaxRank == 1
\* task contexts that can be referenced at the same time
MaxTasks == 2
\* relative file paths that staging and destination can hold
NumFiles == 3
\* download ids and rank range when the reducer is exercised on its own
RdMaxItems == 2
RdMaxRank == 1
\* asTask invocations, and lines the work of one writes to its logger
MaxAsTasks == 2
MaxLog == 1
\* uploads a game can list, and build ids (0: no build)
NumUploads == 2
MaxBuild == 2
\* caves that can be launched, and playtime updates during one launch
NumCaves == 2
MaxPlaytimeUpdates == 2
\* build ids of an upload that a cave can be reverted within (0: no build)
MaxRevertBuild == 3
\* install results committed for a cave before it is launched
MaxInstalls == 2
\* progress events the context of one transfer task emits
MaxProgress == 3
\* sessionReady events received, passes over the caves dispatched
MaxSessionReady == 3
MaxPasses == 6
\* updatePreferences actions dispatched
MaxUpdates == 4

Ids == 1 .. MaxItems
Games == 1 .. NumGames
Tids == 1 .. MaxTasks
Files == 1 .. NumFiles
RdIds == 1 .. RdMaxItems
AtIds == 1 .. MaxAsTasks
UploadIds == 1 .. NumUploads
BuildIds == 0 .. MaxBuild
CaveIds == 1 .. NumCaves
RevertBuildIds == 0 .. MaxRevertBuild

\* ---------------------------------------------------------------- values
\* err and errStack of an item: unset (undefined or null), or the text of an
\* error: its message, its string form ("" + error), its stack
NoErr == "none"
FailureMsg == "failure"
CancelMsg == "cancelled"
AbortMsg == "aborted"
ErrorString == "Error"
StackText == "stack"

\* how performDownload can settle: it returns, or throws an error with a
\* message, an error whose message is empty, a cancellation or an abort
Outcomes == {"ok", "error", "errorNoMessage", "cancelled", "aborted"}

\* watcherState.current when no handle is held
NoHandle == [item |-> 0, ctx |-> 0]

VARIABLES
  items,      \* store.downloads.items: download id -> item
  paused,     \* store.downloads.paused
  current,    \* watcherState.current: the handle {item, ctx} or NoHandle
  handles,    \* watcherState.handles: the ids that have an entry
  discarded,  \* watcherState.discarded: ids marked discarded
  tasks,      \* start() invocations awaiting performDownload: ctx -> task
  wiping,     \* discard handlers awaiting cleanupDiscarded: ids
  nextId,     \* the next download id uuid() yields
  cleaned,    \* history: ids cleanupDiscarded has completed for
  removed,    \* history: ids the discardDownload handler removed
  last,       \* history: the watcher step that produced this state, its
              \* item, and whether the step ran cleanupDiscarded
  rd,         \* the downloads reducer exercised on its own (see SpecReducer)
  dp,         \* the deploy engine's state (see SpecDeploy)
  at,         \* the asTask invocations (see SpecTask)
  uc,         \* a check for a game update (see SpecUpdate)
  ln,         \* a launch of a cave's game (see SpecLaunch)
  cl,         \* a run of cleanupDiscarded for one item (see SpecCleanup)
  pr,         \* a run of prepare of the install core (see SpecPrepare)
  cp,         \* a pass of the update check over the caves (see SpecUpdate)
  rv,         \* a revertCaveRequest being handled (see SpecRevert)
  cv,         \* the database record of the cave installed and launched
  pg,         \* the progress events of one transfer task (see SpecProgress)
  sr,         \* the sessionReady handler's update loop (see SpecSession)
  pf          \* the preferences file and its writers (see SpecPreferences)

dlVars == <<items, paused, current, handles, discarded, tasks, wiping,
            nextId, cleaned, removed, last>>
lateVars == <<rv, cv, pg, sr, pf>>
moreVars == <<cl, pr, cp, lateVars>>
notRv == <<cl, pr, cp, cv, pg, sr, pf>>
notCv == <<cl, pr, cp, rv, pg, sr, pf>>
notPg == <<cl, pr, cp, rv, cv, sr, pf>>
notPf == <<cl, pr, cp, rv, cv, pg, sr>>
otherVars == <<at, uc, ln, moreVars>>
vars == <<items, paused, current, handles, discarded, tasks, wiping,
          nextId, cleaned, removed, last, rd, dp, at, uc, ln, moreVars>>

\* ---------------------------------------------------------------- helpers
Without(f, k) == [x \in (DOMAIN f) \ {k} |-> f[x]]
With(f, k, v) == [x \in (DOMAIN f) \cup {k} |-> IF x = k THEN v ELSE f[x]]
Ranks(its) == {its[i].rank : i \in DOMAIN its}
MinOf(S) == CHOOSE m \in S : \A x \in S : m <= x
MaxOf(S) == CHOOSE m \in S : \A x \in S : x <= m
Op(name, id) == [op |-> name, id |-> id, cleanup |-> FALSE]
Act(type, id, game, err) == [type |-> type, id |-> id, game |-> game, err |-> err]

\* ------------------------------------------------------ reducers/downloads
\* { ...item, ...record } for an item the store knows, the state otherwise
updateSingle(its, id, record) ==
  IF id \notin DOMAIN its THEN its
  ELSE [its EXCEPT ![id] =
          [f \in DOMAIN @ |-> IF f \in DOMAIN record THEN record[f] ELSE @[f]]]

\* higherPriorityRank without the step below the minimum
higherPriorityRankNoStep(its) ==
  IF DOMAIN its = {} THEN 0 ELSE MinOf(Ranks(its))

\* higher priority = smaller numbers
higherPriorityRank(its) ==
  IF DOMAIN its = {} THEN 0 ELSE MinOf(Ranks(its)) - 1

\* lowerPriorityRank without the step above the maximum
lowerPriorityRankNoStep(its) ==
  IF DOMAIN its = {} THEN 0 ELSE MaxOf(Ranks(its))

\* lower priority = larger numbers
lowerPriorityRank(its) ==
  IF DOMAIN its = {} THEN 0 ELSE MaxOf(Ranks(its)) + 1

\* filter(downloads.items, i => i.game.id !== gameId), indexed by id
excludeGame(its, gameId) ==
  [i \in {j \in DOMAIN its : its[j].game # gameId} |-> its[i]]

\* the non-finished items, and the first of them by rank (0: none)
getPendingDownloads(its) == {i \in DOMAIN its : ~its[i].finished}
getActiveDownload(its) ==
  IF getPendingDownloads(its) = {} THEN 0
  ELSE CHOOSE i \in getPendingDownloads(its) :
         \A j \in getPendingDownloads(its) : its[i].rank <= its[j].rank

\* downloadStarted that puts the new item behind the others
downloadStartedItemsLast(its, id, game) ==
  With(excludeGame(its, game), id,
       [game |-> game, rank |-> lowerPriorityRank(its),
        finished |-> FALSE, err |-> NoErr, errStack |-> NoErr,
        progress |-> 0, bps |-> 0, eta |-> 0])

\* downloadStarted that keeps the other items of the game
downloadStartedItemsKeep(its, id, game) ==
  With(its, id,
       [game |-> game, rank |-> higherPriorityRank(its),
        finished |-> FALSE, err |-> NoErr, errStack |-> NoErr,
        progress |-> 0, bps |-> 0, eta |-> 0])

\* on(actions.downloadStarted): the payload is an item that is not finished
\* and carries no err
downloadStartedItems(its, id, game) ==
  With(excludeGame(its, game), id,
       [game |-> game, rank |-> higherPriorityRank(its),
        finished |-> FALSE, err |-> NoErr, errStack |-> NoErr,
        progress |-> 0, bps |-> 0, eta |-> 0])

\* on(actions.retryDownload), for an item the store knows
retryDownloadItems(its, id) ==
  updateSingle(its, id, [rank |-> lowerPriorityRank(its), finished |-> FALSE])

\* prioritizeDownload that also puts the item back in the queue
prioritizeDownloadItemsRequeue(its, id) ==
  updateSingle(its, id, [rank |-> higherPriorityRank(its), finished |-> FALSE])

\* on(actions.prioritizeDownload)
prioritizeDownloadItems(its, id) ==
  updateSingle(its, id, [rank |-> higherPriorityRank(its)])

\* downloadEnded that leaves err and errStack as they were
downloadEndedItemsNoErr(its, id, err, errStack) ==
  updateSingle(its, id, [finished |-> TRUE, progress |-> 0, eta |-> 0, bps |-> 0])

\* on(actions.downloadEnded)
downloadEndedItems(its, id, err, errStack) ==
  updateSingle(its, id, [finished |-> TRUE, progress |-> 0, eta |-> 0, bps |-> 0,
                         err |-> err, errStack |-> errStack])

\* the payload of downloadProgress besides the id: an IProgressInfo of a
\* transfer under way
ProgressInfo == [progress |-> 1, bps |-> 1, eta |-> 1]

\* on(actions.downloadProgress)
downloadProgressItems(its, id, ev) == updateSingle(its, id, ev)

\* resumeDownloads that leaves the items as they are
resumeDownloadsItemsKept(its) == its

\* on(actions.resumeDownloads): map(state.items, i => ({ ...i, bps: 0 }))
resumeDownloadsItems(its) ==
  [i \in DOMAIN its |-> [its[i] EXCEPT !.bps = 0]]

\* on(actions.downloadDiscarded)
downloadDiscardedItems(its, id) ==
  IF id \notin DOMAIN its THEN its ELSE Without(its, id)

\* on(actions.clearGameDownloads)
clearGameDownloadsItems(its, game) == excludeGame(its, game)

\* ------------------------------------------- store actions on the watcher's store
downloadStarted(game) ==
  /\ nextId <= MaxItems
  /\ higherPriorityRank(items) >= -MaxRank
  /\ items' = downloadStartedItems(items, nextId, game)
  /\ nextId' = nextId + 1
  /\ last' = Op("other", 0)
  /\ UNCHANGED <<paused, current, handles, discarded, tasks, wiping,
                 cleaned, removed, rd, dp, otherVars>>

retryDownload(id) ==
  /\ id \in DOMAIN items
  /\ lowerPriorityRank(items) <= MaxRank
  /\ items' = retryDownloadItems(items, id)
  /\ last' = Op("other", 0)
  /\ UNCHANGED <<paused, current, handles, discarded, tasks, wiping,
                 nextId, cleaned, removed, rd, dp, otherVars>>

prioritizeDownload(id) ==
  /\ id \in DOMAIN items
  /\ higherPriorityRank(items) >= -MaxRank
  /\ items' = prioritizeDownloadItems(items, id)
  /\ last' = Op("other", 0)
  /\ UNCHANGED <<paused, current, handles, discarded, tasks, wiping,
                 nextId, cleaned, removed, rd, dp, otherVars>>

pauseDownloads ==
  /\ paused' = TRUE
  /\ last' = Op("other", 0)
  /\ UNCHANGED <<items, current, handles, discarded, tasks, wiping,
                 nextId, cleaned, removed, rd, dp, otherVars>>

\* bps of every item is reset to 0
resumeDownloads ==
  /\ paused' = FALSE
  /\ items' = resumeDownloadsItems(items)
  /\ last' = Op("other", 0)
  /\ UNCHANGED <<current, handles, discarded, tasks, wiping,
                 nextId, cleaned, removed, rd, dp, otherVars>>

\* --------------------------------------------------------- download watcher
\* the context start() creates (new Context(store, db)): one no running task
\* owns; the handle that held a settled task's context is replaced by start()
FreshCtx ==
  IF Tids \ (DOMAIN tasks) = {} THEN 0 ELSE MinOf(Tids \ (DOMAIN tasks))

\* cancelCurrent that emits nothing
cancelCurrentTasksSilent(tk, cur) == tk

\* cancelCurrent(): graceful-cancel is emitted on the current handle's
\* context, where a task still running receives it
cancelCurrentTasks(tk, cur) ==
  IF cur.ctx \in DOMAIN tk THEN [tk EXCEPT ![cur.ctx].cancelSent = TRUE] ELSE tk

\* updateDownloadState that starts a download only when it holds no handle
needsStartWhenIdle(cur, active) == cur = NoHandle

\* whether updateDownloadState calls start(activeDownload)
needsStart(cur, active) == cur = NoHandle \/ cur.item # active

\* updateDownloadState that does not look at downloads.paused
holdsBackIgnoringPause(p, active) == active = 0

\* whether updateDownloadState only cancels: downloads are paused, or there
\* is no active download
holdsBack(p, active) == p \/ active = 0

\* the tick handler: updateDownloadState(), with start() up to its await of
\* performDownload
updateDownloadState ==
  LET active == getActiveDownload(items) IN
  /\ last' = Op("tick", 0)
  /\ IF holdsBack(paused, active)
     THEN /\ tasks' = cancelCurrentTasks(tasks, current)
          /\ current' = NoHandle
          /\ UNCHANGED handles
     ELSE IF needsStart(current, active)
     THEN /\ FreshCtx # 0
          /\ tasks' = With(cancelCurrentTasks(tasks, current), FreshCtx,
                           [item |-> active, cancelSent |-> FALSE])
          /\ current' = [item |-> active, ctx |-> FreshCtx]
          /\ handles' = handles \cup {active}
     ELSE UNCHANGED <<tasks, current, handles>>
  /\ UNCHANGED <<items, paused, discarded, wiping, nextId, cleaned, removed,
                 rd, dp, otherVars>>

\* performDownload surfaces the cancellation error once its context has
\* received graceful-cancel; it can succeed, fail or be aborted at any time
canSettle(task, outcome) == outcome = "cancelled" => task.cancelSent

\* start() that treats only an abort as an interruption
isInterruptedAbortOnly(outcome) == outcome = "aborted"

\* start(): whether the settled work counts as interrupted (no downloadEnded)
isInterrupted(outcome) == outcome \in {"cancelled", "aborted"}

\* error.message of what performDownload threw
messageOf(outcome) ==
  CASE outcome = "error" -> FailureMsg
    [] outcome = "errorNoMessage" -> ""
    [] outcome = "cancelled" -> CancelMsg
    [] outcome = "aborted" -> AbortMsg

\* error ? error.message || "" + error : null
errOf(outcome) ==
  IF outcome = "ok" THEN NoErr
  ELSE IF messageOf(outcome) # "" THEN messageOf(outcome) ELSE ErrorString

\* error ? error.stack : null
errStackOf(outcome) == IF outcome = "ok" THEN NoErr ELSE StackText

\* start() that cleans up only what was marked discarded
cleansUpDiscardedOnly(disc, id, outcome) == id \in disc

\* start(): whether the interrupted work is followed by cleanupDiscarded
cleansUp(disc, id, outcome) == id \in disc \/ outcome = "aborted"

\* start() from the settling of performDownload on: catch and finally
settle(t, outcome) ==
  /\ t \in DOMAIN tasks
  /\ canSettle(tasks[t], outcome)
  /\ tasks' = Without(tasks, t)
  /\ handles' = handles \ {tasks[t].item}
  /\ last' = [Op(outcome, tasks[t].item) EXCEPT
                 !.cleanup = /\ isInterrupted(outcome)
                             /\ cleansUp(discarded, tasks[t].item, outcome)]
  /\ IF isInterrupted(outcome)
     THEN IF cleansUp(discarded, tasks[t].item, outcome)
          THEN /\ items' = IF outcome = "aborted"
                           THEN downloadDiscardedItems(items, tasks[t].item)
                           ELSE items
               /\ discarded' = discarded \ {tasks[t].item}
               /\ cleaned' = cleaned \cup {tasks[t].item}
          ELSE UNCHANGED <<items, discarded, cleaned>>
     ELSE /\ items' = downloadEndedItems(items, tasks[t].item, errOf(outcome),
                                         errStackOf(outcome))
          /\ UNCHANGED <<discarded, cleaned>>
  /\ UNCHANGED <<paused, current, wiping, nextId, removed, rd, dp, otherVars>>

\* the discardDownload handler: to its end when the item has a handle, to its
\* await of cleanupDiscarded otherwise
discardDownload(id) ==
  /\ id \in DOMAIN items
  /\ last' = Op("other", 0)
  /\ IF id \in handles
     THEN /\ discarded' = discarded \cup {id}
          /\ items' = downloadDiscardedItems(items, id)
          /\ removed' = removed \cup {id}
          /\ UNCHANGED wiping
     ELSE /\ wiping' = wiping \cup {id}
          /\ UNCHANGED <<discarded, items, removed>>
  /\ UNCHANGED <<paused, current, handles, tasks, nextId, cleaned, rd, dp, otherVars>>

\* the discardDownload handler once cleanupDiscarded has resolved
discardDownloadDone(id) ==
  /\ id \in wiping
  /\ wiping' = wiping \ {id}
  /\ cleaned' = cleaned \cup {id}
  /\ removed' = IF id \in DOMAIN items THEN removed \cup {id} ELSE removed
  /\ items' = downloadDiscardedItems(items, id)
  /\ last' = Op("other", 0)
  /\ UNCHANGED <<paused, current, handles, discarded, tasks, nextId, rd, dp, otherVars>>

\* the progress handler of a running task dispatches downloadProgress
progress(t) ==
  /\ t \in DOMAIN tasks
  /\ items' = downloadProgressItems(items, tasks[t].item, ProgressInfo)
  /\ last' = Op("other", 0)
  /\ UNCHANGED <<paused, current, handles, discarded, tasks, wiping, nextId,
                 cleaned, removed, rd, dp, otherVars>>

\* ------------------------------------------------- the reducer on its own
\* rd.items and rd.paused are the reducer's state, rd.act the action that was
\* reduced last, rd.nextId the next download id uuid() yields, rd.returned
\* whether the handler of rd.act returned a state or undefined; what the
\* store does with an undefined state is not followed
RdIdle == [items |-> << >>, paused |-> TRUE,
           act |-> Act("init", 0, 0, NoErr), nextId |-> 1,
           returned |-> "state"]

rdReduce(its, psd, a) ==
  [items |-> its, paused |-> psd, act |-> a,
   nextId |-> IF a.type = "downloadStarted" THEN rd.nextId + 1 ELSE rd.nextId,
   returned |-> "state"]

rdDownloadStarted(game) ==
  /\ rd.returned = "state"
  /\ rd.nextId <= RdMaxItems
  /\ higherPriorityRank(rd.items) >= -RdMaxRank
  /\ rd' = rdReduce(downloadStartedItems(rd.items, rd.nextId, game), rd.paused,
                    Act("downloadStarted", rd.nextId, game, NoErr))
  /\ UNCHANGED <<dlVars, dp, otherVars>>

\* on(actions.retryDownload): a bare return for an item the store does not
\* know
rdRetryDownload(id) ==
  /\ rd.returned = "state"
  /\ IF id \in DOMAIN rd.items
     THEN /\ lowerPriorityRank(rd.items) <= RdMaxRank
          /\ rd' = rdReduce(retryDownloadItems(rd.items, id), rd.paused,
                            Act("retryDownload", id, 0, NoErr))
     ELSE rd' = [rd EXCEPT !.act = Act("retryDownload", id, 0, NoErr),
                           !.returned = "undefined"]
  /\ UNCHANGED <<dlVars, dp, otherVars>>

rdPrioritizeDownload(id) ==
  /\ rd.returned = "state"
  /\ higherPriorityRank(rd.items) >= -RdMaxRank
  /\ rd' = rdReduce(prioritizeDownloadItems(rd.items, id), rd.paused,
                    Act("prioritizeDownload", id, 0, NoErr))
  /\ UNCHANGED <<dlVars, dp, otherVars>>

rdDownloadEnded(id, err) ==
  /\ rd.returned = "state"
  /\ rd' = rdReduce(downloadEndedItems(rd.items, id, err,
                        IF err = NoErr THEN NoErr ELSE StackText), rd.paused,
                    Act("downloadEnded", id, 0, err))
  /\ UNCHANGED <<dlVars, dp, otherVars>>

rdDownloadProgress(id) ==
  /\ rd.returned = "state"
  /\ rd' = rdReduce(downloadProgressItems(rd.items, id, ProgressInfo), rd.paused,
                    Act("downloadProgress", id, 0, NoErr))
  /\ UNCHANGED <<dlVars, dp, otherVars>>

rdDownloadDiscarded(id) ==
  /\ rd.returned = "state"
  /\ rd' = rdReduce(downloadDiscardedItems(rd.items, id), rd.paused,
                    Act("downloadDiscarded", id, 0, NoErr))
  /\ UNCHANGED <<dlVars, dp, otherVars>>

rdClearGameDownloads(game) ==
  /\ rd.returned = "state"
  /\ rd' = rdReduce(clearGameDownloadsItems(rd.items, game), rd.paused,
                    Act("clearGameDownloads", 0, game, NoErr))
  /\ UNCHANGED <<dlVars, dp, otherVars>>

rdPauseDownloads ==
  /\ rd.returned = "state"
  /\ rd' = rdReduce(rd.items, TRUE, Act("pauseDownloads", 0, 0, NoErr))
  /\ UNCHANGED <<dlVars, dp, otherVars>>

rdResumeDownloads ==
  /\ rd.returned = "state"
  /\ rd' = rdReduce(resumeDownloadsItems(rd.items), FALSE,
                    Act("resumeDownloads", 0, 0, NoErr))
  /\ UNCHANGED <<dlVars, dp, otherVars>>

\* ------------------------------------------------------------------ deploy
\* dp.stage and dp.dest are the files under stagePath and destPath, dp.receipt
\* is destPath/.itch/receipt.json; stageFiles, destFiles and dinosaurs are
\* deploy's locals; dest0 and receipt0 (what destPath held when the running
\* deploy was called), wiped (what it has deleted), run (1 for the first call,
\* 2 for a second call over the same staging), path1 (how the first call
\* returned) and failedAt (the step that made the running deploy throw) are
\* history
NoReceipt == [kind |-> "missing", files |-> {}]
Receipts == {NoReceipt, [kind |-> "corrupt", files |-> {}]}
              \cup {[kind |-> "ok", files |-> F] : F \in SUBSET Files}

DpIdle == [pc |-> "off", stage |-> {}, dest |-> {}, receipt |-> NoReceipt,
           stageFiles |-> {}, destFiles |-> {}, dinosaurs |-> {},
           wiped |-> {}, path |-> "none", dest0 |-> {}, receipt0 |-> NoReceipt,
           run |-> 1, path1 |-> "none", failedAt |-> "none"]

DpStart(stage, dest, receipt) ==
  [DpIdle EXCEPT !.pc = "glob", !.stage = stage, !.dest = dest,
                 !.receipt = receipt, !.dest0 = dest, !.receipt0 = receipt]

\* difference with its arguments swapped
differenceSwapped(destFiles, stageFiles) == stageFiles \ destFiles

\* difference(destFiles, stageFiles)
difference(destFiles, stageFiles) == destFiles \ stageFiles

\* deploy called a second time in a row, staging being what it was
deployAgain ==
  /\ dp.pc = "done"
  /\ dp.run = 1
  /\ dp' = [DpStart(dp.stage, dp.dest, dp.receipt) EXCEPT !.run = 2,
                                                         !.path1 = dp.path]
  /\ UNCHANGED <<dlVars, rd, otherVars>>

\* a receipt that lists the previous files
receiptObjectPrevious(stageFiles, destFiles) == [kind |-> "ok", files |-> destFiles]

\* a receipt written without the file list
receiptObjectEmpty(stageFiles, destFiles) == [kind |-> "ok", files |-> {}]

\* { cave, files: stageFiles }, as written to the receipt
receiptObject(stageFiles, destFiles) == [kind |-> "ok", files |-> stageFiles]

\* receipt.files || [] of the parsed receipt, [] when reading or parsing threw
receiptFiles(receipt) == IF receipt.kind = "ok" THEN receipt.files ELSE {}

\* sf.glob("**", {cwd: stagePath}) and the single-file test
deployGlob ==
  /\ dp.pc = "glob"
  /\ dp' = [dp EXCEPT !.stageFiles = dp.stage,
                      !.pc = IF Cardinality(dp.stage) = 1 THEN "single" ELSE "mkdir"]
  /\ UNCHANGED <<dlVars, rd, otherVars>>

\* await onSingle(onlyFile): the handler reports it deployed the file (deploy
\* returns ok at once; what the handler did with the file is the caller's and
\* deploy itself leaves destPath as it is), declines, or throws
deploySingle(res) ==
  /\ dp.pc = "single"
  /\ dp' = [dp EXCEPT !.pc = CASE res = "deployed" -> "done"
                               [] res = "declined" -> "mkdir"
                               [] res = "throws" -> "failed",
                      !.path = IF res = "deployed" THEN "single" ELSE dp.path,
                      !.failedAt = IF res = "throws" THEN "single" ELSE @]
  /\ UNCHANGED <<dlVars, rd, otherVars>>

\* await butler.mkdir(destPath)
deployMkdir(ok) ==
  /\ dp.pc = "mkdir"
  /\ dp' = [dp EXCEPT !.pc = IF ok THEN "receipt" ELSE "failed",
                      !.failedAt = IF ok THEN @ ELSE "mkdir"]
  /\ UNCHANGED <<dlVars, rd, otherVars>>

\* reading the receipt without the glob of destPath
deployReadReceiptNoFallback ==
  /\ dp.pc = "receipt"
  /\ dp' = [dp EXCEPT !.destFiles = receiptFiles(dp.receipt),
                      !.dinosaurs = difference(receiptFiles(dp.receipt), dp.stageFiles),
                      !.pc = "wipe"]
  /\ UNCHANGED <<dlVars, rd, otherVars>>

\* the receipt is read, with the glob of destPath when it lists no file, and
\* the dinosaurs are computed
deployReadReceipt ==
  /\ dp.pc = "receipt"
  /\ LET fromReceipt == receiptFiles(dp.receipt)
         destFiles == IF fromReceipt = {} THEN dp.dest ELSE fromReceipt
     IN dp' = [dp EXCEPT !.destFiles = destFiles,
                         !.dinosaurs = difference(destFiles, dp.stageFiles),
                         !.pc = "wipe"]
  /\ UNCHANGED <<dlVars, rd, otherVars>>

\* butler.wipe(dinosaur) of bluebird.map: a rejected wipe rejects the map
deployWipe(f, ok) ==
  /\ dp.pc = "wipe"
  /\ f \in dp.dinosaurs
  /\ dp' = IF ok
           THEN [dp EXCEPT !.dinosaurs = @ \ {f}, !.dest = @ \ {f},
                           !.wiped = @ \cup {f}]
           ELSE [dp EXCEPT !.pc = "failed", !.failedAt = "wipe"]
  /\ UNCHANGED <<dlVars, rd, otherVars>>

\* a merge that writes the receipt as it goes
deployDittoWritesReceipt(copied) ==
  /\ dp.pc = "wipe"
  /\ dp.dinosaurs = {}
  /\ dp' = [dp EXCEPT !.dest = @ \cup copied,
                      !.receipt = receiptObject(dp.stageFiles, dp.destFiles),
                      !.pc = IF copied = dp.stage THEN "write" ELSE "failed",
                      !.failedAt = IF copied = dp.stage THEN @ ELSE "ditto"]
  /\ UNCHANGED <<dlVars, rd, otherVars>>

\* await butler.ditto(stagePath, destPath): a failed merge has copied some of
\* the staging files
deployDitto(copied) ==
  /\ dp.pc = "wipe"
  /\ dp.dinosaurs = {}
  /\ dp' = [dp EXCEPT !.dest = @ \cup copied,
                      !.pc = IF copied = dp.stage THEN "write" ELSE "failed",
                      !.failedAt = IF copied = dp.stage THEN @ ELSE "ditto"]
  /\ UNCHANGED <<dlVars, rd, otherVars>>

\* await sf.writeFile(receiptPath, receiptJson)
deployWriteReceipt(ok) ==
  /\ dp.pc = "write"
  /\ dp' = IF ok
           THEN [dp EXCEPT !.receipt = receiptObject(dp.stageFiles, dp.destFiles),
                           !.pc = "done", !.path = "generic"]
           ELSE [dp EXCEPT !.pc = "failed", !.failedAt = "write"]
  /\ UNCHANGED <<dlVars, rd, otherVars>>

\* ------------------------------------------------------------------ asTask
\* at[i] is the i-th invocation of asTask: pc its position, onError whether
\* opts.onError is set, err what work threw ("ok": nothing), handle whether
\* getCurrentTasks()[id] is set, logger the state of its logger, log the lines
\* written to memlog; started and ended count the taskStarted and taskEnded
\* dispatched for its id, called counts the calls of onError, and passed is
\* what the last call was given
AtNothing == [err |-> "none", log |-> 0]

AtIdle == [pc |-> "off", onError |-> FALSE, err |-> "none", handle |-> FALSE,
           logger |-> "none", log |-> 0, started |-> 0, ended |-> 0,
           called |-> 0, passed |-> AtNothing]

\* asTask up to its await of work(ctx, logger)
asTask(i, onError) ==
  /\ at[i].pc = "off"
  /\ at' = [at EXCEPT ![i] = [AtIdle EXCEPT !.pc = "work", !.onError = onError,
                                            !.started = 1, !.handle = TRUE,
                                            !.logger = "open"]]
  /\ UNCHANGED <<dlVars, rd, dp, uc, ln, moreVars>>

\* work writes a line to the logger it was given
asTaskLog(i) ==
  /\ at[i].pc = "work"
  /\ at[i].log < MaxLog
  /\ at' = [at EXCEPT ![i].log = @ + 1]
  /\ UNCHANGED <<dlVars, rd, dp, uc, ln, moreVars>>

\* asTask that reports cancellations and aborts to onError as well
callsOnErrorAlways(err, onError) == err # "ok" /\ onError

\* whether asTask calls onError for what work threw
callsOnError(err, onError) ==
  err # "ok" /\ err # "cancelled" /\ err # "aborted" /\ onError

\* asTask from the settling of work to its await of onError, or to its end:
\* the handle is deleted, logger.close() is tried, taskEnded is dispatched
\* unless onError is awaited first
asTaskWorkSettles(i, err, closeOk) ==
  /\ at[i].pc = "work"
  /\ at' = [at EXCEPT ![i] =
       [@ EXCEPT !.err = err,
                 !.handle = FALSE,
                 !.logger = IF closeOk THEN "closed" ELSE "closeThrew",
                 !.pc = IF callsOnError(err, at[i].onError) THEN "onError" ELSE "ended",
                 !.called = IF callsOnError(err, at[i].onError) THEN @ + 1 ELSE @,
                 !.passed = IF callsOnError(err, at[i].onError)
                            THEN [err |-> err, log |-> at[i].log] ELSE @,
                 !.ended = IF callsOnError(err, at[i].onError) THEN @ ELSE @ + 1]]
  /\ UNCHANGED <<dlVars, rd, dp, uc, ln, moreVars>>

\* asTask from the settling of onError on: taskEnded is dispatched when it
\* resolved, asTask rejects without dispatching when it rejected
asTaskOnErrorSettles(i, resolved) ==
  /\ at[i].pc = "onError"
  /\ at' = [at EXCEPT ![i] =
       [@ EXCEPT !.pc = IF resolved THEN "ended" ELSE "rejected",
                 !.ended = IF resolved THEN @ + 1 ELSE @]]
  /\ UNCHANGED <<dlVars, rd, dp, uc, ln, moreVars>>

\* ------------------------------------------------------- game update check
\* uc.cave is the cave checked (uploadId, buildId: 0 when unset), uc.skip the
\* reason the check has to stop early, if any, uc.listed what the game lists:
\* upload id -> [buildId, recent], recent when updatedAt is after the cave's
\* installedAt; fetched, found and path are how fetch.gameLazily, findUpload
\* and findUpgradePath ended; result is what _doCheckForGameUpdate returned,
\* dispatched the gameUpdateAvailable payloads, status the statusMessage count
Skips == {"none", "otherUser", "notLaunchable", "noGameId", "running"}
Caves == [uploadId : {0} \cup UploadIds, buildId : BuildIds]
Listings ==
  UNION {[L -> [buildId : BuildIds, recent : BOOLEAN]] : L \in SUBSET UploadIds}

NoResult == [kind |-> "none", hasUpgrade |-> FALSE, game |-> FALSE]
\* {hasUpgrade: false}, returnVars with the game set, {err}
SkipResult == [kind |-> "vars", hasUpgrade |-> FALSE, game |-> FALSE]
ReturnVars(hasUpgrade) == [kind |-> "vars", hasUpgrade |-> hasUpgrade, game |-> TRUE]
ErrResult == [kind |-> "err", hasUpgrade |-> FALSE, game |-> FALSE]
\* the exception leaves _doCheckForGameUpdate
Threw == [kind |-> "threw", hasUpgrade |-> FALSE, game |-> FALSE]

UcIdle == [pc |-> "off", cave |-> [uploadId |-> 0, buildId |-> 0],
           skip |-> "none", noisy |-> FALSE, listed |-> << >>,
           fetched |-> "none", found |-> "none", path |-> "none",
           result |-> NoResult, dispatched |-> << >>, status |-> 0]

\* the gameUpdateAvailable payload: recentUploads and incremental
Update(uploads, incremental) == [recentUploads |-> uploads, incremental |-> incremental]

\* filter(uploads, updatedAt > installedAt)
recentUploads(listed) == {u \in DOMAIN listed : listed[u].recent}

\* cave.uploadId && cave.buildId, and the upload still listed with a build id
tracksListedBuild(cave, listed) ==
  /\ cave.uploadId # 0 /\ cave.buildId # 0
  /\ cave.uploadId \in DOMAIN listed
  /\ listed[cave.uploadId].buildId # 0

\* a new build only when the upload's build id is greater
hasNewBuildGreater(cave, listed) ==
  listed[cave.uploadId].buildId > cave.buildId

\* upload.buildId !== cave.buildId
hasNewBuild(cave, listed) ==
  listed[cave.uploadId].buildId # cave.buildId

\* asking to pick only with more than two recent uploads
mustPickAboveTwo(recent) == Cardinality(recent) > 2

\* recentUploads.length > 1
mustPick(recent) == Cardinality(recent) > 1

\* differentUpload || wentWharf of the only recent upload
isNewUpload(cave, listed, u) ==
  u # cave.uploadId \/ (listed[u].buildId # 0 /\ cave.buildId = 0)

\* _doCheckForGameUpdate up to its await of fetch.gameLazily
checkForGameUpdate(cave, skip, noisy, listed) ==
  /\ uc.pc = "off"
  /\ uc' = [UcIdle EXCEPT
        !.cave = cave, !.skip = skip, !.noisy = noisy, !.listed = listed,
        !.pc = IF skip \in {"otherUser", "notLaunchable", "noGameId"}
               THEN "done" ELSE "fetchGame",
        !.result = IF skip \in {"otherUser", "notLaunchable", "noGameId"}
                   THEN SkipResult ELSE NoResult]
  /\ UNCHANGED <<dlVars, rd, dp, at, ln, moreVars>>

\* fetch.gameLazily settles: it throws, yields no game (game.title then
\* throws a TypeError) or the game, which may be running
ucFetchGame(res) ==
  /\ uc.pc = "fetchGame"
  /\ uc' = [uc EXCEPT
        !.fetched = res,
        !.pc = IF res = "game" /\ uc.skip # "running" THEN "findUpload" ELSE "done",
        !.result = CASE res = "throws" -> ErrResult
                     [] res = "null" -> Threw
                     [] res = "game" /\ uc.skip = "running" -> ReturnVars(FALSE)
                     [] OTHER -> NoResult]
  /\ UNCHANGED <<dlVars, rd, dp, at, ln, moreVars>>

\* findUpload threw: the download key belongs to another user, the network
\* is down, or anything else
ucFindUploadThrows(why) ==
  /\ uc.pc = "findUpload"
  /\ uc' = [uc EXCEPT !.found = why, !.pc = "done",
                      !.result = IF why = "otherUserKey" THEN ReturnVars(FALSE)
                                 ELSE ErrResult]
  /\ UNCHANGED <<dlVars, rd, dp, at, ln, moreVars>>

\* findUpload returned the listed uploads: the decision, up to the await of
\* findUpgradePath or to the return
ucFindUpload ==
  /\ uc.pc = "findUpload"
  /\ LET recent == recentUploads(uc.listed)
         only == CHOOSE u \in recent : TRUE
     IN uc' =
       IF DOMAIN uc.listed = {}
       THEN [uc EXCEPT !.found = "ok", !.pc = "done", !.result = ErrResult]
       ELSE IF tracksListedBuild(uc.cave, uc.listed)
       THEN IF hasNewBuild(uc.cave, uc.listed)
            THEN [uc EXCEPT !.found = "ok", !.pc = "upgradePath",
                            !.status = IF uc.noisy THEN @ + 1 ELSE @]
            ELSE [uc EXCEPT !.found = "ok", !.pc = "done",
                            !.result = ReturnVars(FALSE)]
       ELSE IF recent = {}
       THEN [uc EXCEPT !.found = "ok", !.pc = "done", !.result = ReturnVars(FALSE)]
       ELSE IF mustPick(recent)
       THEN [uc EXCEPT !.found = "ok", !.pc = "done",
                       !.dispatched = Append(@, Update(recent, FALSE)),
                       !.result = ReturnVars(TRUE)]
       ELSE IF isNewUpload(uc.cave, uc.listed, only)
       THEN [uc EXCEPT !.found = "ok", !.pc = "done",
                       !.dispatched = Append(@, Update(recent, FALSE)),
                       !.result = ReturnVars(FALSE)]
       ELSE [uc EXCEPT !.found = "ok", !.pc = "done", !.result = ReturnVars(FALSE)]
  /\ UNCHANGED <<dlVars, rd, dp, at, ln, moreVars>>

\* findUpgradePath settles
ucFindUpgradePath(ok) ==
  /\ uc.pc = "upgradePath"
  /\ uc' = IF ok
           THEN [uc EXCEPT !.path = "ok", !.pc = "done",
                           !.dispatched = Append(@, Update({uc.cave.uploadId}, TRUE)),
                           !.result = ReturnVars(TRUE)]
           ELSE [uc EXCEPT !.path = "throws", !.pc = "done", !.result = ErrResult]
  /\ UNCHANGED <<dlVars, rd, dp, at, ln, moreVars>>

\* cp.db is the caves installed when a pass over the caves was last run,
\* cp.checked the caves that pass called doCheckForGameUpdate for
CpIdle == [pc |-> "off", db |-> {}, checked |-> {}]

\* Object.keys(caves) of the checkForGameUpdates handler, whose caves is {}
passCaves(db) == {}

\* the checkForGameUpdates handler, a pass over the caves: each cave of
\* passCaves is checked in turn inside a try/catch, with a delay after it
cpPassed(db) == [pc |-> "done", db |-> db, checked |-> passCaves(db)]

checkForGameUpdates(db) ==
  /\ cp' = cpPassed(db)
  /\ UNCHANGED <<dlVars, rd, dp, at, uc, ln, cl, pr, lateVars>>

\* ------------------------------------------------------- the cave's record
\* cv.rec is the cave's record in the database, cv.prev the record before the
\* last mutation, cv.lastWrite the fields the last saveOne was given, cv.op
\* the last mutation and its inputs, cv.repeated whether the mutation before
\* it was the same one with the same inputs, cv.writes the number of saveOne
\* calls so far (the clock that new Date() reads)
UPDATE_PLAYTIME_INTERVAL == 10

NoOp == [kind |-> "none", reason |-> "none", build |-> 0]

CvIdle ==
  [rec |-> [secondsRun |-> 0, lastTouched |-> 0, lastTouchedAt |-> 0,
            installedAt |-> 0, build |-> 0, verdict |-> "set"],
   prev |-> [secondsRun |-> 0, lastTouched |-> 0, lastTouchedAt |-> 0,
             installedAt |-> 0, build |-> 0, verdict |-> "set"],
   lastWrite |-> [lastTouchedAt |-> 0],
   op |-> NoOp, repeated |-> FALSE, writes |-> 0]

\* db.saveOne(table, id, fields): the fields given replace those of the record
saveOne(rec, fields) ==
  [f \in DOMAIN rec |-> IF f \in DOMAIN fields THEN fields[f] ELSE rec[f]]

\* the state of cv after mutation op has called saveOne with fields
cvSaved(op, fields) ==
  [rec |-> saveOne(cv.rec, fields), prev |-> cv.rec, lastWrite |-> fields,
   op |-> op, repeated |-> (cv.op = op), writes |-> cv.writes + 1]

\* a playtime update that writes the interval alone
newSecondsRunReset(previousSecondsRun) == UPDATE_PLAYTIME_INTERVAL

\* UPDATE_PLAYTIME_INTERVAL + previousSecondsRun
newSecondsRun(previousSecondsRun) == UPDATE_PLAYTIME_INTERVAL + previousSecondsRun

\* the fields the playtime timer saves
playtimeFields ==
  [secondsRun |-> newSecondsRun(cv.rec.secondsRun), lastTouched |-> cv.writes + 1]

\* coreInstall commits the install result: the cave is caveIn with the new
\* installedAt and build, and without its verdict unless this is a first
\* install
installFields(reason, build) ==
  [secondsRun |-> cv.rec.secondsRun, lastTouched |-> cv.rec.lastTouched,
   lastTouchedAt |-> cv.rec.lastTouchedAt,
   installedAt |-> cv.writes + 1, build |-> build,
   verdict |-> IF reason # "install" THEN "null" ELSE cv.rec.verdict]

coreInstallCommit(reason, build) ==
  /\ ln.pc = "off"
  /\ cv.writes < MaxInstalls
  /\ cv' = cvSaved([kind |-> "install", reason |-> reason, build |-> build],
                   installFields(reason, build))
  /\ UNCHANGED <<dlVars, rd, dp, at, uc, ln, notCv>>

\* ----------------------------------------------------------- performLaunch
\* ln.cave is the cave launched, credentials whether getGameCredentials finds
\* some, preventSleep preferences.preventDisplaySleep; status and queued are
\* the statusMessage count and the queueDownload payloads dispatched, launches
\* the Launch requests sent to the butler client; interval and blocker are
\* the playtime timer and the power-save blocker, cancelled the local flag,
\* updates the playtime updates saved, touched whether lastTouchedAt is saved
LaunchCaves ==
  [id : CaveIds, morphing : BOOLEAN, upload : UploadIds, build : BuildIds]

LnIdle == [pc |-> "off",
           cave |-> [id |-> 1, morphing |-> FALSE, upload |-> 1, build |-> 0],
           credentials |-> FALSE, preventSleep |-> FALSE,
           status |-> 0, queued |-> << >>, launches |-> 0,
           interval |-> FALSE, blocker |-> FALSE, cancelled |-> FALSE,
           updates |-> 0, touched |-> FALSE]

\* the queueDownload payload
Heal(cave) ==
  [caveId |-> cave.id, reason |-> "heal", upload |-> cave.upload, build |-> cave.build]

\* performLaunch without the test of cave.morphing
performLaunchAnyCave(cave, credentials, preventSleep) ==
  /\ ln.pc = "off"
  /\ ln' = [LnIdle EXCEPT !.cave = cave, !.credentials = credentials,
                          !.preventSleep = preventSleep,
                          !.pc = IF credentials THEN "instance" ELSE "threw"]
  /\ UNCHANGED <<dlVars, rd, dp, at, uc, moreVars>>

\* performLaunch up to its return for a morphing cave, its throw without
\* credentials, or its await of makeButlerInstance
performLaunch(cave, credentials, preventSleep) ==
  /\ ln.pc = "off"
  /\ ln' = IF cave.morphing
           THEN [LnIdle EXCEPT !.cave = cave, !.credentials = credentials,
                               !.preventSleep = preventSleep,
                               !.status = 1, !.queued = <<Heal(cave)>>,
                               !.pc = "done"]
           ELSE [LnIdle EXCEPT !.cave = cave, !.credentials = credentials,
                               !.preventSleep = preventSleep,
                               !.pc = IF credentials THEN "instance" ELSE "threw"]
  /\ UNCHANGED <<dlVars, rd, dp, at, uc, moreVars>>

\* makeButlerInstance settles; performLaunch then waits for the instance
lnInstance(ok) ==
  /\ ln.pc = "instance"
  /\ ln' = [ln EXCEPT !.pc = IF ok THEN "waiting" ELSE "threw"]
  /\ UNCHANGED <<dlVars, rd, dp, at, uc, moreVars>>

\* the onClient callback: the handlers are set and the Launch request is sent
lnClient ==
  /\ ln.pc = "waiting"
  /\ ln' = [ln EXCEPT !.pc = "launching", !.launches = @ + 1]
  /\ UNCHANGED <<dlVars, rd, dp, at, uc, moreVars>>

\* the LaunchRunning notification
lnLaunchRunning ==
  /\ ln.pc = "launching"
  /\ ~ln.interval
  /\ ln' = [ln EXCEPT !.interval = TRUE, !.blocker = ln.preventSleep]
  /\ UNCHANGED <<dlVars, rd, dp, at, uc, moreVars>>

\* the playtime timer fires: secondsRun of the cave is saved, 10 seconds more
lnUpdatePlaytime ==
  /\ ln.interval
  /\ ln.updates < MaxPlaytimeUpdates
  /\ ln' = [ln EXCEPT !.updates = @ + 1]
  /\ cv' = cvSaved([NoOp EXCEPT !.kind = "playtime"], playtimeFields)
  /\ UNCHANGED <<dlVars, rd, dp, at, uc, notCv>>

\* the stop of ctx.withStopper: the butler instance is cancelled
lnStop ==
  /\ ln.pc \in {"waiting", "launching"}
  /\ ~ln.cancelled
  /\ ln' = [ln EXCEPT !.cancelled = TRUE]
  /\ UNCHANGED <<dlVars, rd, dp, at, uc, moreVars>>

\* the Launch call settles: the finally of the onClient callback, then the
\* instance's promise settles and performLaunch returns or throws
lnLaunchSettles(ok) ==
  /\ ln.pc = "launching"
  /\ ln' = [ln EXCEPT !.interval = FALSE, !.blocker = FALSE, !.touched = TRUE,
                      !.pc = IF ln.cancelled THEN "cancelled"
                             ELSE IF ok THEN "done" ELSE "threw"]
  /\ cv' = cvSaved([NoOp EXCEPT !.kind = "touch"],
                   [lastTouchedAt |-> cv.writes + 1])
  /\ UNCHANGED <<dlVars, rd, dp, at, uc, notCv>>

\* the instance's promise settles before a client connected, after a stop
lnInstanceCancelled ==
  /\ ln.pc = "waiting"
  /\ ln.cancelled
  /\ ln' = [ln EXCEPT !.pc = "cancelled"]
  /\ UNCHANGED <<dlVars, rd, dp, at, uc, moreVars>>

\* ------------------------------------------------------- cleanupDiscarded
\* why a download was queued (DownloadReason)
Reasons == {"install", "reinstall", "update", "revert", "heal"}

\* the items cleanupDiscarded can be handed: the store's item when the
\* discardDownload handler calls it, the item start() was given when start()
\* calls it; err is unset or the text downloadEnded stored, hasCave whether
\* item.caveId is set
CleanupItems ==
  [reason : Reasons, err : {NoErr, FailureMsg, ErrorString},
   finished : BOOLEAN, hasCave : BOOLEAN]

\* cl.item is the item being cleaned up, cl.caveIn what folderOpts.caveIn
\* holds, cl.wiped the folders wiped so far
ClIdle ==
  [pc |-> "off",
   item |-> [reason |-> "install", err |-> NoErr, finished |-> FALSE,
             hasCave |-> FALSE],
   caveIn |-> "null", wiped |-> {}]

\* the test that guards wipeInstallFolder
wipesInstallAnyReason(item) == item.err # NoErr
wipesInstall(item) == item.reason = "install" /\ item.err # NoErr

\* cleanupDiscarded up to its await of wipeDownloadFolder; inDb is whether
\* db.caves.findOneById finds the item's cave
cleanupDiscarded(item, inDb) ==
  /\ cl.pc = "off"
  /\ cl' = [pc |-> "wipeDownload", item |-> item,
            caveIn |-> IF item.hasCave /\ inDb THEN "cave" ELSE "null",
            wiped |-> {}]
  /\ UNCHANGED <<dlVars, rd, dp, at, uc, ln, pr, cp, lateVars>>

\* wipeDownloadFolder settles; when it throws cleanupDiscarded throws
clWipeDownloadFolder(ok) ==
  /\ cl.pc = "wipeDownload"
  /\ cl' = IF ok
             THEN [cl EXCEPT !.wiped = @ \cup {"download"},
                             !.pc = IF wipesInstall(cl.item)
                                      THEN "wipeInstall" ELSE "done"]
             ELSE [cl EXCEPT !.pc = "threw"]
  /\ UNCHANGED <<dlVars, rd, dp, at, uc, ln, pr, cp, lateVars>>

\* wipeInstallFolder settles
clWipeInstallFolder(ok) ==
  /\ cl.pc = "wipeInstall"
  /\ cl' = IF ok
             THEN [cl EXCEPT !.wiped = @ \cup {"install"}, !.pc = "done"]
             ELSE [cl EXCEPT !.pc = "threw"]
  /\ UNCHANGED <<dlVars, rd, dp, at, uc, ln, pr, cp, lateVars>>

\* ---------------------------------------------------------------- prepare
\* installer kinds (InstallerType) that have a manager, and one that has none
NoKind == "none"
ManagedKinds == {"archive", "naked", "msi"}
Kinds == ManagedKinds \cup {"unknown"}

\* what readReceipt yields: no receipt, a receipt without installerName, or
\* a receipt that names a kind
PrReceipts == {"null", "unnamed"} \cup Kinds
receiptInstallerName(receipt) ==
  IF receipt \in Kinds THEN receipt ELSE NoKind

PrIdle ==
  [pc |-> "off", specified |-> NoKind, forceSniff |-> FALSE,
   receipt |-> "null", archivePath |-> FALSE, sniffed |-> NoKind,
   source |-> "", installerName |-> NoKind]

\* the source prepare takes the kind from
prepareSourceSniffFirst(specified, forceSniff, receipt, archivePath) ==
  IF specified # NoKind THEN "specified"
  ELSE IF archivePath THEN "sniffed"
  ELSE IF ~forceSniff /\ receiptInstallerName(receipt) # NoKind THEN "cached"
  ELSE "fallback"
prepareSource(specified, forceSniff, receipt, archivePath) ==
  IF specified # NoKind THEN "specified"
  ELSE IF ~forceSniff /\ receiptInstallerName(receipt) # NoKind THEN "cached"
  ELSE IF archivePath THEN "sniffed"
  ELSE "fallback"

\* prepare: readReceipt, then the kind from its source (getInstallerType
\* sniffs the archive and yields some kind), then the manager of that kind or
\* a Cancelled error when there is none
prepare(specified, forceSniff, receipt, archivePath, sniffed) ==
  /\ pr.pc = "off"
  /\ LET source == prepareSource(specified, forceSniff, receipt, archivePath)
         installerName ==
           CASE source = "specified" -> specified
             [] source = "cached" -> receiptInstallerName(receipt)
             [] source = "sniffed" -> sniffed
             [] OTHER -> "archive"
     IN pr' = [pc |-> IF installerName \in ManagedKinds
                        THEN "returned" ELSE "cancelled",
               specified |-> specified, forceSniff |-> forceSniff,
               receipt |-> receipt, archivePath |-> archivePath,
               sniffed |-> IF source = "sniffed" THEN sniffed ELSE NoKind,
               source |-> source, installerName |-> installerName]
  /\ UNCHANGED <<dlVars, rd, dp, at, uc, ln, cl, cp, lateVars>>

\* the caller is done with the result; prepare can be called again
prepareAgain ==
  /\ pr.pc # "off"
  /\ pr' = PrIdle
  /\ UNCHANGED <<dlVars, rd, dp, at, uc, ln, cl, cp, lateVars>>

\* ----------------------------------------------------------------- revert
\* rv.cave is what db.caves.findOneById yields: found (FALSE: no cave),
\* gameId and upload whether the cave has them, build the id of cave.build
\* (0: none); credentials whether the session has some; builds the ids
\* listBuilds returned, remoteBuilds the filtered list, response the build id
\* chosen in the modal (0: the modal was closed); queued the build of the
\* queueDownload dispatched (0: none); task how the work given to asTask ended
RevertCaves ==
  [found : BOOLEAN, gameId : BOOLEAN, upload : BOOLEAN, build : RevertBuildIds]

RvIdle ==
  [pc |-> "off",
   cave |-> [found |-> FALSE, gameId |-> FALSE, upload |-> FALSE, build |-> 0],
   credentials |-> FALSE, builds |-> {}, remoteBuilds |-> {}, response |-> 0,
   queued |-> 0, task |-> "none"]

\* the list of builds offered without the filter
remoteBuildsAll(builds, currentBuild) == builds

\* filter(buildsList.builds, remoteBuild => remoteBuild.id < currentBuild.id)
remoteBuilds(builds, currentBuild) == {b \in builds : b < currentBuild}

\* the revertCaveRequest handler up to the await of lazyGetGame in the work
\* it gives to asTask; it returns without a task when the cave or its game id
\* is missing
revertCaveRequest(cave, credentials) ==
  /\ rv.pc = "off"
  /\ rv' = [RvIdle EXCEPT
       !.cave = cave, !.credentials = credentials,
       !.pc = IF ~cave.found \/ ~cave.gameId THEN "ignored" ELSE "getGame",
       !.task = IF ~cave.found \/ ~cave.gameId THEN "none" ELSE "running"]
  /\ UNCHANGED <<dlVars, rd, dp, at, uc, ln, notRv>>

\* lazyGetGame settles; the work returns early without upload, build or
\* credentials, and awaits client.listBuilds otherwise
rvGetGame(ok) ==
  /\ rv.pc = "getGame"
  /\ rv' = IF ~ok THEN [rv EXCEPT !.pc = "done", !.task = "threw"]
           ELSE IF ~rv.cave.upload \/ rv.cave.build = 0 \/ ~rv.credentials
           THEN [rv EXCEPT !.pc = "done", !.task = "returned"]
           ELSE [rv EXCEPT !.pc = "listBuilds"]
  /\ UNCHANGED <<dlVars, rd, dp, at, uc, ln, notRv>>

\* client.listBuilds settles: the list is filtered and the modal is shown
rvListBuilds(builds, ok) ==
  /\ rv.pc = "listBuilds"
  /\ rv' = IF ok
           THEN [rv EXCEPT !.builds = builds,
                           !.remoteBuilds = remoteBuilds(builds, rv.cave.build),
                           !.pc = "modal"]
           ELSE [rv EXCEPT !.pc = "done", !.task = "threw"]
  /\ UNCHANGED <<dlVars, rd, dp, at, uc, ln, notRv>>

\* the modal answers: closed, or a build id that is looked up in remoteBuilds
rvModal(response) ==
  /\ rv.pc = "modal"
  /\ rv' = IF response = 0
           THEN [rv EXCEPT !.pc = "done", !.task = "returned"]
           ELSE IF response \in rv.remoteBuilds
           THEN [rv EXCEPT !.response = response, !.queued = response,
                           !.pc = "done", !.task = "returned"]
           ELSE [rv EXCEPT !.response = response, !.pc = "done",
                           !.task = "threw"]
  /\ UNCHANGED <<dlVars, rd, dp, at, uc, ln, notRv>>

\* ------------------------------------------- progress of a transfer task
\* pg follows one start(): pg.items is the store's item set, pg.interrupted
\* the local flag of start(), pg.window whether less than the throttle's wait
\* has passed since the throttled function last ran, pg.timer whether its
\* trailing call is scheduled, pg.emitted the progress events the context
\* has emitted, pg.dispatched the download actions dispatched, in order
PgIdle == [pc |-> "off", items |-> << >>, id |-> 0, interrupted |-> FALSE,
           window |-> FALSE, timer |-> FALSE, emitted |-> 0,
           dispatched |-> << >>]

\* the handler given to throttle: if (interrupted) return; else dispatch
progressDispatched(interrupted) == ~interrupted

\* the state after the throttled function has run the handler
pgInvoked ==
  IF progressDispatched(pg.interrupted)
  THEN [pg EXCEPT !.items = downloadProgressItems(@, pg.id, ProgressInfo),
                  !.dispatched = Append(@, "downloadProgress"),
                  !.window = TRUE, !.timer = FALSE]
  ELSE [pg EXCEPT !.window = TRUE, !.timer = FALSE]

\* downloadStarted for a game, then the tick that calls start() for the
\* item, up to the await of performDownload
pgStart(game) ==
  /\ pg.pc = "off"
  /\ pg' = [PgIdle EXCEPT !.pc = "running", !.id = 1,
                          !.items = downloadStartedItems(<< >>, 1, game),
                          !.dispatched = <<"downloadStarted">>]
  /\ UNCHANGED <<dlVars, rd, dp, at, uc, ln, notPg>>

\* the context emits "progress": underscore's throttle runs the handler at
\* once when the wait has passed, and schedules a trailing call otherwise
pgProgress ==
  /\ pg.pc = "running"
  /\ pg.emitted < MaxProgress
  /\ pg' = IF pg.window
           THEN [pg EXCEPT !.timer = TRUE, !.emitted = @ + 1]
           ELSE [pgInvoked EXCEPT !.emitted = @ + 1]
  /\ UNCHANGED <<dlVars, rd, dp, at, uc, ln, notPg>>

\* the wait has passed: the trailing call runs if one is scheduled
pgWaitPassed ==
  /\ pg.window
  /\ pg' = IF pg.timer THEN pgInvoked ELSE [pg EXCEPT !.window = FALSE]
  /\ UNCHANGED <<dlVars, rd, dp, at, uc, ln, notPg>>

\* performDownload settles: catch and finally of start()
pgSettle(outcome) ==
  /\ pg.pc = "running"
  /\ pg' = IF isInterrupted(outcome)
           THEN [pg EXCEPT
                   !.pc = "settled", !.interrupted = TRUE,
                   !.items = IF outcome = "aborted"
                             THEN downloadDiscardedItems(@, pg.id) ELSE @,
                   !.dispatched = IF outcome = "aborted"
                                  THEN Append(@, "downloadDiscarded") ELSE @]
           ELSE [pg EXCEPT
                   !.pc = "settled",
                   !.items = downloadEndedItems(@, pg.id, errOf(outcome),
                                                errStackOf(outcome)),
                   !.dispatched = Append(@, "downloadEnded")]
  /\ UNCHANGED <<dlVars, rd, dp, at, uc, ln, notPg>>

\* -------------------------------------------- the periodic update loop
\* sr.updaterInstalled is the module's flag, sr.events the sessionReady
\* events received, sr.loops the loops that are awaiting their delay, each
\* with the number of the event that started it and the delay it awaits in
\* minutes, sr.passes the checkForGameUpdates actions dispatched
DELAY_BETWEEN_PASSES == 20
DELAY_BETWEEN_PASSES_WIGGLE == 10

\* DELAY_BETWEEN_PASSES + Math.random() * DELAY_BETWEEN_PASSES_WIGGLE, for
\* a random number at either end of its range
passDelay(random) == DELAY_BETWEEN_PASSES + random * DELAY_BETWEEN_PASSES_WIGGLE

SrIdle == [updaterInstalled |-> FALSE, events |-> 0, loops |-> << >>,
           passes |-> 0]

\* a sessionReady handler that does not look at the flag
startsLoopAlways(installed) == TRUE

\* the sessionReady handler: if (updaterInstalled) return
startsLoop(installed) == ~installed

\* the sessionReady handler up to the first await of its loop; the pass it
\* dispatches runs over the caves installed then
sessionReady(db, random) ==
  /\ sr.events < MaxSessionReady
  /\ IF startsLoop(sr.updaterInstalled)
     THEN /\ sr' = [updaterInstalled |-> TRUE, events |-> sr.events + 1,
                    loops |-> Append(sr.loops, [by |-> sr.events + 1,
                                                delay |-> passDelay(random)]),
                    passes |-> sr.passes + 1]
          /\ cp' = cpPassed(db)
     ELSE /\ sr' = [sr EXCEPT !.events = @ + 1]
          /\ UNCHANGED cp
  /\ UNCHANGED <<dlVars, rd, dp, at, uc, ln, cl, pr, rv, cv, pg, pf>>

\* the delay of loop l is over: the loop dispatches checkForGameUpdates and
\* awaits the next delay
srDelayOver(l, db, random) ==
  /\ l \in DOMAIN sr.loops
  /\ sr.passes < MaxPasses
  /\ sr' = [sr EXCEPT !.passes = @ + 1, !.loops[l].delay = passDelay(random)]
  /\ cp' = cpPassed(db)
  /\ UNCHANGED <<dlVars, rd, dp, at, uc, ln, cl, pr, rv, cv, pg, pf>>

\* ------------------------------------------------ saving the preferences
\* pf.prefs is store.getState().preferences, numbered by the updatePreferences
\* action that produced it; pf.file the content of the preferences file;
\* pf.tmp the temporary files by the number in their name; pf.handlers the
\* updatePreferences handlers by the value of saveAtomicInvocations they
\* took, with what they await
PfIdle == [prefs |-> 0, file |-> 0, tmp |-> << >>, handlers |-> << >>,
           saveAtomicInvocations |-> 0]

\* updatePreferences is dispatched and its handler runs up to the await of
\* writeFile
updatePreferences ==
  /\ pf.saveAtomicInvocations < MaxUpdates
  /\ pf' = [pf EXCEPT
              !.prefs = @ + 1,
              !.saveAtomicInvocations = @ + 1,
              !.handlers = With(@, pf.saveAtomicInvocations,
                                [pc |-> "writeFile", prefs |-> pf.prefs + 1])]
  /\ UNCHANGED <<dlVars, rd, dp, at, uc, ln, notPf>>

\* sf.writeFile(tmpPath, JSON.stringify(prefs)) of handler h resolves
pfWriteFile(h) ==
  /\ h \in DOMAIN pf.handlers
  /\ pf.handlers[h].pc = "writeFile"
  /\ pf' = [pf EXCEPT !.tmp = With(@, h, pf.handlers[h].prefs),
                      !.handlers[h].pc = "rename"]
  /\ UNCHANGED <<dlVars, rd, dp, at, uc, ln, notPf>>

\* sf.rename(tmpPath, file) of handler h resolves
pfRename(h) ==
  /\ h \in DOMAIN pf.handlers
  /\ pf.handlers[h].pc = "rename"
  /\ pf' = [pf EXCEPT !.file = pf.tmp[h],
                      !.tmp = Without(@, h),
                      !.handlers[h].pc = "done"]
  /\ UNCHANGED <<dlVars, rd, dp, at, uc, ln, notPf>>


\* ---------------------------------------------------------- specifications
InitDownloads ==
  /\ items = << >>
  /\ paused = TRUE
  /\ current = NoHandle
  /\ handles = {}
  /\ discarded = {}
  /\ tasks = << >>
  /\ wiping = {}
  /\ nextId = 1
  /\ cleaned = {}
  /\ removed = {}
  /\ last = Op("init", 0)

InitOthers ==
  /\ at = [i \in AtIds |-> AtIdle]
  /\ uc = UcIdle
  /\ ln = LnIdle
  /\ cl = ClIdle
  /\ pr = PrIdle
  /\ cp = CpIdle
  /\ rv = RvIdle
  /\ cv = CvIdle
  /\ pg = PgIdle
  /\ sr = SrIdle
  /\ pf = PfIdle

Init == InitDownloads /\ rd = RdIdle /\ dp = DpIdle /\ InitOthers

Next ==
  \/ \E g \in Games : downloadStarted(g)
  \/ \E id \in Ids : retryDownload(id)
  \/ \E id \in Ids : prioritizeDownload(id)
  \/ pauseDownloads
  \/ resumeDownloads
  \/ updateDownloadState
  \/ \E t \in Tids, o \in Outcomes : settle(t, o)
  \/ \E id \in Ids : discardDownload(id)
  \/ \E id \in Ids : discardDownloadDone(id)

Spec == Init /\ [][Next]_vars

\* the watcher under the scheduling the code relies on: ticks keep coming,
\* performDownload settles, cleanupDiscarded resolves
SpecFair ==
  /\ Spec
  /\ WF_vars(updateDownloadState)
  /\ \A t \in Tids : WF_vars(\E o \in Outcomes : settle(t, o))
  /\ \A id \in Ids : WF_vars(discardDownloadDone(id))

\* queueing, pausing and resuming with the progress events of the tasks,
\* without retries, reordering or discards
NextPause ==
  \/ \E g \in Games : downloadStarted(g)
  \/ pauseDownloads
  \/ resumeDownloads
  \/ updateDownloadState
  \/ \E t \in Tids, o \in Outcomes : settle(t, o)
  \/ \E t \in Tids : progress(t)

SpecPause == Init /\ [][NextPause]_vars

NextReducer ==
  \/ \E g \in Games : rdDownloadStarted(g)
  \/ \E id \in RdIds : rdRetryDownload(id)
  \/ \E id \in RdIds : rdPrioritizeDownload(id)
  \/ \E id \in RdIds, e \in {NoErr, FailureMsg} : rdDownloadEnded(id, e)
  \/ \E id \in RdIds : rdDownloadDiscarded(id)
  \/ \E g \in Games : rdClearGameDownloads(g)
  \/ rdPauseDownloads
  \/ rdResumeDownloads

SpecReducer == Init /\ [][NextReducer]_vars

\* the reducer with the progress events of the transfers as well
NextReducerProgress ==
  \/ NextReducer
  \/ \E id \in RdIds : rdDownloadProgress(id)

SpecReducerProgress == Init /\ [][NextReducerProgress]_vars

InitDeploy ==
  /\ InitDownloads
  /\ rd = RdIdle
  /\ dp \in {DpStart(s, d, r) : s \in SUBSET Files, d \in SUBSET Files, r \in Receipts}
  /\ InitOthers

NextDeploy ==
  \/ deployGlob
  \/ \E res \in {"deployed", "declined", "throws"} : deploySingle(res)
  \/ \E ok \in BOOLEAN : deployMkdir(ok)
  \/ deployReadReceipt
  \/ \E f \in Files, ok \in BOOLEAN : deployWipe(f, ok)
  \/ \E copied \in SUBSET dp.stage : deployDitto(copied)
  \/ \E ok \in BOOLEAN : deployWriteReceipt(ok)
  \/ deployAgain

SpecDeploy == InitDeploy /\ [][NextDeploy]_vars

NextTask ==
  \/ \E i \in AtIds, onError \in BOOLEAN : asTask(i, onError)
  \/ \E i \in AtIds : asTaskLog(i)
  \/ \E i \in AtIds, err \in Outcomes, closeOk \in BOOLEAN :
        asTaskWorkSettles(i, err, closeOk)
  \/ \E i \in AtIds, resolved \in BOOLEAN : asTaskOnErrorSettles(i, resolved)

SpecTask == Init /\ [][NextTask]_vars

\* a check of one cave and a pass over the caves share no state, so they are
\* explored one at a time
NextUpdate ==
  \/ /\ uc.pc = "off"
     /\ cp.pc = "off"
     /\ \E cave \in Caves, skip \in Skips, noisy \in BOOLEAN, listed \in Listings :
           checkForGameUpdate(cave, skip, noisy, listed)
  \/ \E res \in {"throws", "null", "game"} : ucFetchGame(res)
  \/ \E why \in {"otherUserKey", "network", "other"} : ucFindUploadThrows(why)
  \/ ucFindUpload
  \/ \E ok \in BOOLEAN : ucFindUpgradePath(ok)
  \/ /\ uc.pc = "off"
     /\ \E db \in SUBSET CaveIds : checkForGameUpdates(db)

SpecUpdate == Init /\ [][NextUpdate]_vars

NextLaunch ==
  \/ /\ ln.pc = "off"
     /\ \E cave \in LaunchCaves, credentials \in BOOLEAN, preventSleep \in BOOLEAN :
           performLaunch(cave, credentials, preventSleep)
  \/ \E ok \in BOOLEAN : lnInstance(ok)
  \/ lnClient
  \/ lnLaunchRunning
  \/ lnUpdatePlaytime
  \/ lnStop
  \/ \E ok \in BOOLEAN : lnLaunchSettles(ok)
  \/ lnInstanceCancelled

SpecLaunch == Init /\ [][NextLaunch]_vars

\* the life of one cave's record: install results are committed, then the
\* cave is launched
NextCave ==
  \/ \E reason \in Reasons, build \in BuildIds : coreInstallCommit(reason, build)
  \/ /\ ln.pc = "off"
     /\ \E cave \in {c \in LaunchCaves : c.id = 1 /\ c.upload = 1 /\ c.build = cv.rec.build},
           preventSleep \in BOOLEAN :
           performLaunch(cave, TRUE, preventSleep)
  \/ \E ok \in BOOLEAN : lnInstance(ok)
  \/ lnClient
  \/ lnLaunchRunning
  \/ lnUpdatePlaytime
  \/ lnStop
  \/ \E ok \in BOOLEAN : lnLaunchSettles(ok)
  \/ lnInstanceCancelled

SpecCave == Init /\ [][NextCave]_vars

NextSession ==
  \/ \E db \in SUBSET CaveIds, r \in {0, 1} : sessionReady(db, r)
  \/ \E l \in 1 .. MaxSessionReady, db \in SUBSET CaveIds, r \in {0, 1} :
        srDelayOver(l, db, r)

SpecSession == Init /\ [][NextSession]_vars

NextPreferences ==
  \/ updatePreferences
  \/ \E h \in 0 .. MaxUpdates - 1 : pfWriteFile(h)
  \/ \E h \in 0 .. MaxUpdates - 1 : pfRename(h)

SpecPreferences == Init /\ [][NextPreferences]_vars

NextProgress ==
  \/ \E g \in Games : pgStart(g)
  \/ pgProgress
  \/ pgWaitPassed
  \/ \E o \in Outcomes : pgSettle(o)

SpecProgress == Init /\ [][NextProgress]_vars

NextCleanup ==
  \/ /\ cl.pc = "off"
     /\ \E item \in CleanupItems, inDb \in BOOLEAN : cleanupDiscarded(item, inDb)
  \/ \E ok \in BOOLEAN : clWipeDownloadFolder(ok)
  \/ \E ok \in BOOLEAN : clWipeInstallFolder(ok)

SpecCleanup == Init /\ [][NextCleanup]_vars

NextPrepare ==
  \/ /\ pr.pc = "off"
     /\ \E specified \in Kinds \cup {NoKind}, forceSniff \in BOOLEAN,
           receipt \in PrReceipts, archivePath \in BOOLEAN, sniffed \in Kinds :
           prepare(specified, forceSniff, receipt, archivePath, sniffed)
  \/ prepareAgain

SpecPrepare == Init /\ [][NextPrepare]_vars

NextRevert ==
  \/ /\ rv.pc = "off"
     /\ \E cave \in RevertCaves, credentials \in BOOLEAN :
           revertCaveRequest(cave, credentials)
  \/ \E ok \in BOOLEAN : rvGetGame(ok)
  \/ \E builds \in SUBSET (RevertBuildIds \ {0}), ok \in BOOLEAN : rvListBuilds(builds, ok)
  \/ \E response \in RevertBuildIds : rvModal(response)

SpecRevert == Init /\ [][NextRevert]_vars

\* ------------------------------------------------------------------ claims

\* C1: right after a tick handled while downloads are not paused, the current
\* handle, if any, belongs to the non-finished item of smallest rank, and
\* there is no current handle when the store has no non-finished item.
C1_CurrentIsActiveAfterTick ==
  (last.op = "tick" /\ ~paused) =>
     /\ current # NoHandle => current.item = getActiveDownload(items)
     /\ getPendingDownloads(items) = {} => current = NoHandle

\* a tick selected item 1 although item 2, enqueued after it, is also pending
C1_Witness ==
  /\ last.op = "tick" /\ ~paused
  /\ current.item = 1
  /\ {1, 2} \subseteq getPendingDownloads(items)
  /\ current.ctx \in DOMAIN tasks

\* C2: no two transfer tasks are in flight for the same download item.
C2_OneTaskPerItem ==
  \A t1 \in DOMAIN tasks, t2 \in DOMAIN tasks :
     tasks[t1].item = tasks[t2].item => t1 = t2

\* C3: right after a tick handled while downloads are not paused and a
\* non-finished item exists, a transfer task is in flight for the non-finished
\* item of smallest rank.
C3_TaskInFlightAfterTick ==
  (last.op = "tick" /\ ~paused /\ getActiveDownload(items) # 0) =>
     \E t \in DOMAIN tasks : tasks[t].item = getActiveDownload(items)

\* C4: when the transfer work of an item ends with a cancellation error, no
\* downloadEnded is dispatched: the step leaves the store's items as they were
\* (an err that was unset stays unset, an item that was not finished is still
\* not finished), and no item ever carries the cancellation message as err.
C4_CancellationNeverEnds ==
  [][/\ last'.op = "cancelled" => items' = items
     /\ \A i \in DOMAIN items' : items'[i].err # CancelMsg]_vars

\* a task of an item still queued, without err, has settled by cancellation
C4_Witness ==
  /\ last.op = "cancelled"
  /\ last.id \in DOMAIN items
  /\ ~items[last.id].finished
  /\ items[last.id].err = NoErr

\* C5: an item removed by discardDownload has had cleanupDiscarded run for it
\* by the time no task of it is in flight any more: in the handler when it had
\* no handle, when its task settles otherwise.
C5_DiscardedIsCleaned ==
  \A id \in removed :
     id \in cleaned \/ \E t \in DOMAIN tasks : tasks[t].item = id

\* C6: prioritizeDownload(id) on an item of the store gives it a rank strictly
\* less than the rank every other item has at call time.
C6_PrioritizeBelowAll ==
  [][(rd'.act.type = "prioritizeDownload" /\ rd'.act.id \in DOMAIN rd.items) =>
       /\ rd'.act.id \in DOMAIN rd'.items
       /\ \A j \in (DOMAIN rd.items) \ {rd'.act.id} :
             rd'.items[rd'.act.id].rank < rd.items[j].rank]_vars

\* item 1 has been prioritized while item 2 is in the store
C6_Witness ==
  /\ rd.act.type = "prioritizeDownload"
  /\ rd.act.id = 1
  /\ {1, 2} \subseteq DOMAIN rd.items

\* C7: retryDownload(id) on an item of the store gives it a rank strictly
\* greater than the rank every other item has at call time, and marks it
\* non-finished.
C7_RetryAboveAll ==
  [][(rd'.act.type = "retryDownload" /\ rd'.act.id \in DOMAIN rd.items) =>
       /\ rd'.act.id \in DOMAIN rd'.items
       /\ ~rd'.items[rd'.act.id].finished
       /\ \A j \in (DOMAIN rd.items) \ {rd'.act.id} :
             rd'.items[rd'.act.id].rank > rd.items[j].rank]_vars

\* item 2, which had failed, has been retried while item 1 is in the store
C7_Witness ==
  /\ rd.act.type = "retryDownload"
  /\ rd.act.id = 2
  /\ {1, 2} \subseteq DOMAIN rd.items
  /\ rd.items[2].err = FailureMsg

\* C8: downloadStarted(item) inserts the item with a rank strictly smaller
\* than the rank of every other item that remains in the store, so that it is
\* the item getActiveDownload selects.
C8_EnqueuedIsFirst ==
  rd.act.type = "downloadStarted" =>
     /\ rd.act.id \in DOMAIN rd.items
     /\ \A j \in (DOMAIN rd.items) \ {rd.act.id} :
           rd.items[rd.act.id].rank < rd.items[j].rank
     /\ getActiveDownload(rd.items) = rd.act.id

\* an item has been enqueued while a non-finished item of another game stays
C8_Witness ==
  /\ rd.act.type = "downloadStarted"
  /\ \E j \in (DOMAIN rd.items) \ {rd.act.id} : ~rd.items[j].finished

\* C9: after a deploy that returns successfully through the generic path, the
\* receipt lists exactly the files under stagePath, whatever files and
\* whatever receipt destPath held before.
C9_ReceiptIsStaging ==
  (dp.pc = "done" /\ dp.path = "generic") =>
     dp.receipt = [kind |-> "ok", files |-> dp.stage]

\* a generic deploy succeeded over a destination and a receipt that both
\* differed from staging
C9_Witness ==
  /\ dp.pc = "done" /\ dp.path = "generic"
  /\ dp.dest0 # {} /\ dp.dest0 # dp.stage
  /\ dp.receipt0.kind = "ok"
  /\ dp.receipt0.files \notin {{}, dp.stage, dp.dest0}

\* C10's case: the previous receipt lists the destination's files, and
\* staging holds a different set
ReceiptListsDest ==
  /\ dp.receipt0.kind = "ok"
  /\ dp.receipt0.files = dp.dest0
  /\ dp.dest0 # {}
  /\ dp.stage # dp.dest0

\* what C10 says of a deploy that has returned
OrphansRemoved ==
  /\ dp.wiped = dp.dest0 \ dp.stage
  /\ dp.dest = dp.stage
  /\ dp.receipt = [kind |-> "ok", files |-> dp.stage]

\* C10 as stated: when the previous receipt lists the destination's files,
\* every successful deploy deletes exactly the previous files absent from
\* staging, leaves exactly the staging files and writes them as the receipt.
C10_Original ==
  (dp.pc = "done" /\ ReceiptListsDest) => OrphansRemoved

\* C10 as amended: the same, of a deploy that returns through the generic
\* path (not one the single-file handler reported as deployed).
C10_OrphansRemovedGeneric ==
  (dp.pc = "done" /\ dp.path = "generic" /\ ReceiptListsDest) => OrphansRemoved

\* a generic deploy over a listed destination removed a file and added one
C10_Witness ==
  /\ dp.pc = "done" /\ dp.path = "generic" /\ ReceiptListsDest
  /\ dp.dest0 \ dp.stage # {}
  /\ dp.stage \ dp.dest0 # {}
  /\ dp.stage \cap dp.dest0 # {}

\* what C11 says of a second deploy that has returned
SecondRunChangesNothing ==
  /\ dp.dest = dp.dest0
  /\ dp.receipt = dp.receipt0
  /\ dp.wiped = {}

\* C11 as stated, of two deploys through the generic path: after a second
\* deploy in a row over the same staging content, the destination holds the
\* files and the receipt it held after the first, and the second deploy has
\* deleted no file.
C11_Original ==
  (dp.pc = "done" /\ dp.run = 2 /\ dp.path = "generic" /\ dp.path1 = "generic") =>
     SecondRunChangesNothing

\* C11 as amended: the same, when staging holds at least one file.
C11_SecondDeployIsIdle ==
  (dp.pc = "done" /\ dp.run = 2 /\ dp.path = "generic" /\ dp.path1 = "generic"
     /\ dp.stage # {}) => SecondRunChangesNothing

\* a second generic deploy has returned over a destination that keeps a file
\* staging does not hold
C11_Witness ==
  /\ dp.pc = "done" /\ dp.run = 2
  /\ dp.path = "generic" /\ dp.path1 = "generic"
  /\ dp.stage # {}
  /\ dp.dest \ dp.stage # {}

\* C12: when the receipt is missing, unparsable or lists no file, the previous
\* file set deploy works from is the listing of destPath, and the files a
\* successful deploy has deleted are exactly the destination files absent
\* from staging.
C12_FallbackListsDest ==
  receiptFiles(dp.receipt0) = {} =>
     /\ dp.pc \in {"wipe", "write"} => dp.destFiles = dp.dest0
     /\ (dp.pc = "done" /\ dp.path = "generic") =>
           /\ dp.destFiles = dp.dest0
           /\ dp.wiped = dp.dest0 \ dp.stage

\* a deploy over an unparsable receipt has deleted a file and kept another
C12_Witness ==
  /\ dp.pc = "done" /\ dp.path = "generic"
  /\ dp.receipt0.kind = "corrupt"
  /\ dp.wiped # {}
  /\ dp.dest0 \cap dp.stage # {}

\* C13: an invocation of asTask that is over has dispatched taskStarted once
\* and taskEnded exactly once, and taskEnded is never dispatched before the
\* handle is removed and the logger closed, however work and onError end.
C13_TaskEndedOnce ==
  \A i \in AtIds :
     /\ at[i].pc \in {"ended", "rejected"} =>
           at[i].started = 1 /\ at[i].ended = 1
     /\ at[i].ended > 0 =>
           at[i].ended = 1 /\ ~at[i].handle /\ at[i].logger # "open"

\* what C14 says the check has done for a cave whose tracked upload is listed
\* with a build id
BuildDecision ==
  IF uc.listed[uc.cave.uploadId].buildId # uc.cave.buildId
  THEN /\ uc.path = "ok"
       /\ uc.dispatched = <<Update({uc.cave.uploadId}, TRUE)>>
       /\ uc.result.kind = "vars" /\ uc.result.hasUpgrade
  ELSE /\ ~uc.result.hasUpgrade
       /\ uc.dispatched = << >>

\* C14 as stated: for a cave that tracks an upload and a build whose upload is
\* still listed with a build id, a check that has returned has, when the two
\* build ids differ, computed an upgrade path, dispatched gameUpdateAvailable
\* with incremental = true and reported hasUpgrade = true, and has, when they
\* are equal, reported no upgrade and dispatched nothing.
C14_Original ==
  (uc.pc = "done" /\ tracksListedBuild(uc.cave, uc.listed)) => BuildDecision

\* C14 as amended: the same, of a check that was not stopped before it got
\* the uploads and whose findUpgradePath, when called, succeeded.
C14_BuildDecision ==
  (uc.pc = "done" /\ tracksListedBuild(uc.cave, uc.listed)
     /\ uc.found = "ok" /\ uc.path # "throws") => BuildDecision

\* a check found the tracked upload at an older build than the cave's and
\* reported the upgrade
C14_Witness ==
  /\ uc.pc = "done" /\ tracksListedBuild(uc.cave, uc.listed)
  /\ uc.found = "ok" /\ uc.path = "ok"
  /\ uc.listed[uc.cave.uploadId].buildId < uc.cave.buildId
  /\ uc.result.hasUpgrade

\* what C15 says the check has done with several recent uploads
AllRecentOffered ==
  /\ uc.dispatched = <<Update({u \in DOMAIN uc.listed : uc.listed[u].recent}, FALSE)>>
  /\ uc.result.kind = "vars" /\ uc.result.hasUpgrade

\* C15 as stated: for a cave without a tracked build id, a check that has
\* returned while more than one upload is more recent than the install has
\* dispatched gameUpdateAvailable with all of them and reported
\* hasUpgrade = true.
C15_Original ==
  (uc.pc = "done" /\ uc.cave.buildId = 0
     /\ Cardinality({u \in DOMAIN uc.listed : uc.listed[u].recent}) > 1) =>
     AllRecentOffered

\* C15 as amended: the same, of a check that was not stopped before it got
\* the uploads.
C15_AllRecentOffered ==
  (uc.pc = "done" /\ uc.cave.buildId = 0 /\ uc.found = "ok"
     /\ Cardinality({u \in DOMAIN uc.listed : uc.listed[u].recent}) > 1) =>
     AllRecentOffered

\* a check offered two recent uploads, the cave's own among them
C15_Witness ==
  /\ uc.pc = "done" /\ uc.cave.buildId = 0 /\ uc.found = "ok"
  /\ Cardinality({u \in DOMAIN uc.listed : uc.listed[u].recent}) > 1
  /\ uc.cave.uploadId \in DOMAIN uc.listed
  /\ Len(uc.dispatched) = 1

\* C16: performLaunch on a morphing cave sends no Launch request: it has
\* returned having dispatched one queueDownload, with reason "heal", for the
\* cave's id, upload and build.
C16_MorphingIsHealed ==
  (ln.pc # "off" /\ ln.cave.morphing) =>
     /\ ln.launches = 0
     /\ ln.pc = "done"
     /\ ln.queued = <<[caveId |-> ln.cave.id, reason |-> "heal",
                       upload |-> ln.cave.upload, build |-> ln.cave.build]>>

\* the launch of morphing cave 2, with credentials at hand, queued its heal
C16_Witness ==
  /\ ln.pc = "done" /\ ln.cave.morphing /\ ln.credentials
  /\ ln.cave.id = 2 /\ ln.cave.build # 0
  /\ Len(ln.queued) = 1

\* what the item of the task that just settled carries
EndedWith(err, errStack) ==
  /\ items[last.id].finished
  /\ items[last.id].err = err
  /\ items[last.id].errStack = errStack

\* C17 as stated: when the work of an item of the store has thrown an error
\* that is neither a cancellation nor an abort, the item is finished with the
\* error's message as err and its stack as errStack; when the work has
\* returned, the item is finished with err and errStack unset.
C17_Original ==
  last.id \in DOMAIN items =>
     /\ last.op = "error" => EndedWith(FailureMsg, StackText)
     /\ last.op = "errorNoMessage" => EndedWith("", StackText)
     /\ last.op = "ok" => EndedWith(NoErr, NoErr)

\* C17 as amended: the same, err being the string form of the error when its
\* message is empty.
C17_EndedWithError ==
  last.id \in DOMAIN items =>
     /\ last.op = "error" => EndedWith(FailureMsg, StackText)
     /\ last.op = "errorNoMessage" => EndedWith(ErrorString, StackText)
     /\ last.op = "ok" => EndedWith(NoErr, NoErr)

\* the work of an item failed while another item was queued behind it
C17_Witness ==
  /\ last.op = "error"
  /\ last.id \in DOMAIN items
  /\ items[last.id].err = FailureMsg
  /\ \E j \in DOMAIN items : j # last.id /\ ~items[j].finished

\* C18: cleanupDiscarded never runs from the discard handler for an item
\* while a transfer task of that item is in flight.
C18_NoWipeWhileInFlight ==
  \A id \in wiping : \A t \in DOMAIN tasks : tasks[t].item # id

\* C19: at most one transfer task in flight has not been sent graceful-cancel,
\* and it is the task of the current handle.
C19_OneTaskNotCancelled ==
  \A t \in DOMAIN tasks : ~tasks[t].cancelSent => current.ctx = t

\* two tasks are in flight, the older one has been sent graceful-cancel
C19_Witness ==
  /\ Cardinality(DOMAIN tasks) = 2
  /\ \E t \in DOMAIN tasks : tasks[t].cancelSent
  /\ \E t \in DOMAIN tasks : ~tasks[t].cancelSent /\ current.ctx = t

\* C20: when the work of an item ends with a cancellation or an abort, either
\* the step leaves the store's items as they were and runs no cleanup, or it
\* runs cleanupDiscarded for the item; it runs it exactly when the item was
\* marked discarded or the error is an abort, and after an abort the item is
\* out of the store (downloadDiscarded was dispatched).
C20_RequeueOrCleanup ==
  [][last'.op \in {"cancelled", "aborted"} =>
       /\ last'.cleanup <=> (last'.id \in discarded \/ last'.op = "aborted")
       /\ last'.cleanup => cleaned' = cleaned \cup {last'.id}
       /\ ~last'.cleanup => (cleaned' = cleaned /\ items' = items)
       /\ last'.op = "cancelled" => items' = items
       /\ last'.op = "aborted" => last'.id \notin DOMAIN items']_vars

\* the work of an item still in the store was aborted: the item is gone and
\* cleaned up, though it was never marked discarded
C20_Witness ==
  /\ last.op = "aborted"
  /\ last.cleanup
  /\ last.id \in cleaned
  /\ last.id \notin DOMAIN items
  /\ last.id \notin removed

\* C21: cleanupDiscarded wipes the install folder only for an item whose
\* reason is "install" and whose err is set; once it has completed for a
\* successfully finished item, or for an item whose reason is reinstall,
\* update, revert or heal, it has wiped the download folder and nothing else.
C21_InstallWipedOnlyForFailedInstall ==
  /\ "install" \in cl.wiped =>
        cl.item.reason = "install" /\ cl.item.err # NoErr
  /\ ( /\ cl.pc = "done"
       /\ \/ cl.item.finished /\ cl.item.err = NoErr
          \/ cl.item.reason \in {"reinstall", "update", "revert", "heal"} )
       => cl.wiped = {"download"}

C21_Witness ==
  /\ cl.pc = "done"
  /\ cl.item.reason = "install"
  /\ cl.item.err = FailureMsg
  /\ cl.wiped = {"download", "install"}

\* C22: a tick handled while downloads are paused starts no transfer task,
\* sends graceful-cancel to the task of the current handle if there is one,
\* and leaves the watcher without a current handle.
C22_PausedTickOnlyCancels ==
  [][(paused /\ last'.op = "tick") =>
       /\ DOMAIN tasks' = DOMAIN tasks
       /\ \A t \in DOMAIN tasks : tasks'[t].item = tasks[t].item
       /\ current.ctx \in DOMAIN tasks => tasks'[current.ctx].cancelSent
       /\ current' = NoHandle]_vars

C22_Witness ==
  /\ paused
  /\ last.op = "tick"
  /\ current = NoHandle
  /\ getActiveDownload(items) # 0
  /\ \E t \in DOMAIN tasks :
        /\ DOMAIN tasks = {t}
        /\ tasks[t].item = getActiveDownload(items)
        /\ tasks[t].cancelSent

\* item i is still in the reducer's state, and finished, after the step
StillFinished(i) == i \in DOMAIN rd'.items /\ rd'.items[i].finished

\* what removes an item explicitly: downloadDiscarded for it, which is what
\* discardDownload and clearFinishedDownloads lead to
DiscardedNow(i) == rd'.act.type = "downloadDiscarded" /\ rd'.act.id = i

\* what else takes a finished item away: retryDownload of it, and
\* downloadStarted or clearGameDownloads for its game
ReplacedNow(i) ==
  \/ rd'.act.type = "retryDownload" /\ rd'.act.id = i
  \/ rd'.act.type \in {"downloadStarted", "clearGameDownloads"}
       /\ rd'.act.game = rd.items[i].game

\* C23 as stated: a finished item stays in the item set, still finished,
\* across every operation but the discard of that item.
C23_Original ==
  [][\A i \in DOMAIN rd.items :
        rd.items[i].finished => (StillFinished(i) \/ DiscardedNow(i))]_vars

\* C23: a finished item stays in the item set, still finished, across every
\* operation but the discard of that item, retryDownload of that item, and
\* downloadStarted or clearGameDownloads for the item's game.
C23_FinishedStays ==
  [][\A i \in DOMAIN rd.items :
        rd.items[i].finished =>
          (StillFinished(i) \/ DiscardedNow(i) \/ ReplacedNow(i))]_vars

C23_Witness ==
  \E i \in DOMAIN rd.items :
    /\ rd.items[i].finished
    /\ rd.act.type \in {"downloadStarted", "prioritizeDownload", "downloadEnded"}
    /\ rd.act.id # i
    /\ rd.act.id \in DOMAIN rd.items

\* C24: watcherState.handles has an entry for an id exactly while a task
\* started for that id has not settled yet.
C24_HandleWhileInFlight ==
  handles = {tasks[t].item : t \in DOMAIN tasks}

\* C25: asTask calls onError (once) if and only if work threw an error that
\* is neither a cancellation nor an abort and a callback was supplied; the
\* call is given the error thrown and the log the task's logger accumulated.
C25_OnErrorIffFailure ==
  \A i \in AtIds :
    /\ at[i].pc \in {"off", "work"} => at[i].called = 0
    /\ at[i].pc \in {"onError", "ended", "rejected"} =>
         /\ at[i].called \in {0, 1}
         /\ at[i].called = 1 <=>
              /\ at[i].err \in {"error", "errorNoMessage"}
              /\ at[i].onError
         /\ at[i].called = 1 =>
              at[i].passed = [err |-> at[i].err, log |-> at[i].log]

C25_Witness ==
  \E i \in AtIds :
    /\ at[i].pc = "onError"
    /\ at[i].called = 1
    /\ at[i].passed = [err |-> "error", log |-> MaxLog]

\* C26: while deploy has not completed the merge of staging into the
\* destination, and after it failed in the single-file handler, in mkdir, in
\* the deletion of an orphan or in the merge, the receipt is what it was when
\* deploy was called.
C26_ReceiptKeptUntilMerged ==
  /\ dp.pc \in {"glob", "single", "mkdir", "receipt", "wipe", "write"} =>
       dp.receipt = dp.receipt0
  /\ (dp.pc = "failed" /\ dp.failedAt \in {"single", "mkdir", "wipe", "ditto"}) =>
       dp.receipt = dp.receipt0

C26_Witness ==
  /\ dp.pc = "failed"
  /\ dp.failedAt = "ditto"
  /\ dp.dest # dp.dest0
  /\ dp.wiped # {}
  /\ dp.receipt0.kind = "ok"
  /\ dp.receipt0.files # dp.stageFiles
  /\ dp.receipt = dp.receipt0

\* C27: a deploy is never aborted by a failure to delete an orphan.
C27_WipeFailureDoesNotAbort ==
  dp.pc = "failed" => dp.failedAt # "wipe"

\* C28: prepare takes the installer kind from the specified kind when there
\* is one; else from the receipt when forceSniff is off and the receipt names
\* a kind; else from sniffing the archive when an archive path is given; else
\* it is "archive". A source is used only when every source before it is
\* absent.
C28_KindPriority ==
  pr.pc # "off" =>
    LET cached == ~pr.forceSniff /\ pr.receipt \in Kinds IN
    /\ pr.source \in {"specified", "cached", "sniffed", "fallback"}
    /\ pr.source = "specified" <=> pr.specified # NoKind
    /\ pr.source = "cached" <=> (pr.specified = NoKind /\ cached)
    /\ pr.source = "sniffed" <=>
         (pr.specified = NoKind /\ ~cached /\ pr.archivePath)
    /\ pr.source = "fallback" <=>
         (pr.specified = NoKind /\ ~cached /\ ~pr.archivePath)
    /\ pr.installerName =
         CASE pr.source = "specified" -> pr.specified
           [] pr.source = "cached" -> pr.receipt
           [] pr.source = "sniffed" -> pr.sniffed
           [] OTHER -> "archive"

C28_Witness ==
  /\ pr.pc = "returned"
  /\ pr.source = "cached"
  /\ pr.archivePath
  /\ pr.installerName = "msi"

\* C29: for a cave without a tracked build id, a check that got the uploads
\* and found exactly one of them updated after the install, with another
\* upload id than the cave's or with a build id, has dispatched
\* gameUpdateAvailable for it and returned hasUpgrade = true.
C29_SingleRecentReported ==
  \A u \in DOMAIN uc.listed :
    ( /\ uc.pc = "done" /\ uc.found = "ok"
      /\ uc.cave.buildId = 0
      /\ {v \in DOMAIN uc.listed : uc.listed[v].recent} = {u}
      /\ u # uc.cave.uploadId \/ uc.listed[u].buildId # 0 )
    => /\ uc.dispatched = <<Update({u}, FALSE)>>
       /\ uc.result.kind = "vars" /\ uc.result.hasUpgrade

\* a findUpgradePath that throws makes the check return an err result
UpgradePathFailureIsErr ==
  uc.path = "throws" => (uc.pc = "done" /\ uc.result.kind = "err")

C31_RevertOnlyToOlderBuild ==
  /\ rv.queued # 0 =>
       /\ rv.queued \in rv.builds
       /\ rv.queued < rv.cave.build
       /\ rv.queued = rv.response
  /\ ( /\ rv.pc = "done"
       /\ rv.response # 0
       /\ ~(rv.response \in rv.builds /\ rv.response < rv.cave.build) )
       => (rv.task = "threw" /\ rv.queued = 0)

C31_Witness ==
  /\ rv.pc = "done"
  /\ rv.response = rv.cave.build
  /\ rv.response \in rv.builds
  /\ rv.remoteBuilds # {}
  /\ rv.task = "threw"
  /\ rv.queued = 0

\* two records of the cave agree but for their timestamps
SameButTimes(a, b) ==
  a.secondsRun = b.secondsRun /\ a.build = b.build /\ a.verdict = b.verdict

C33_OneItemPerGame ==
  /\ \A i, j \in DOMAIN rd.items :
       rd.items[i].game = rd.items[j].game => i = j
  /\ rd.act.type = "downloadStarted" =>
       {i \in DOMAIN rd.items : rd.items[i].game = rd.act.game} = {rd.act.id}

\* a download of a game was started while a finished item of it was there
C33_Witness ==
  /\ rd.act.type = "downloadStarted"
  /\ rd.act.id > 1
  /\ DOMAIN rd.items = {rd.act.id}

\* C34: no downloadProgress is dispatched for an item after its
\* downloadEnded, and a finished item has progress, bps and eta at 0.
C34_NoProgressAfterEnded ==
  /\ \A k, l \in DOMAIN pg.dispatched :
       (k < l /\ pg.dispatched[k] = "downloadEnded") =>
          pg.dispatched[l] # "downloadProgress"
  /\ \A i \in DOMAIN pg.items :
       pg.items[i].finished =>
         (pg.items[i].progress = 0 /\ pg.items[i].bps = 0 /\ pg.items[i].eta = 0)

\* C35: every item that has left the item set eventually has its download
\* folder wiped by cleanupDiscarded.
C35_LeftItemsAreWiped ==
  \A id \in Ids :
    (id < nextId /\ id \notin DOMAIN items) ~> (id \in cleaned)

\* C36: every item of the reducer's state that is not finished has err and
\* errStack unset.
C36_PendingItemsHaveNoErr ==
  \A i \in DOMAIN rd.items :
    ~rd.items[i].finished =>
      (rd.items[i].err = NoErr /\ rd.items[i].errStack = NoErr)

\* C37: the queue starts paused and without a task; while it is paused no
\* step starts a task, and only resumeDownloads unpauses it; pauseDownloads
\* changes the paused flag only, resumeDownloads the paused flag and the bps
\* of every item, which becomes 0.
C37_PausedUntilResumed ==
  /\ paused = TRUE /\ tasks = << >> /\ items = << >>
  /\ [][/\ paused => DOMAIN tasks' \subseteq DOMAIN tasks
        /\ (paused /\ ~paused') => resumeDownloads
        /\ pauseDownloads =>
             /\ paused' /\ items' = items
             /\ UNCHANGED <<current, handles, discarded, tasks, wiping, nextId>>
        /\ resumeDownloads =>
             /\ ~paused'
             /\ items' = [i \in DOMAIN items |-> [items[i] EXCEPT !.bps = 0]]
             /\ UNCHANGED <<current, handles, discarded, tasks, wiping, nextId>>
       ]_vars

C37_Witness ==
  /\ ~paused
  /\ \E i \in DOMAIN items :
       /\ ~items[i].finished
       /\ items[i].progress = 1
       /\ items[i].bps = 0

\* C38: at most one update loop is running, and it is the one the first
\* sessionReady started.
C38_OneUpdateLoop ==
  /\ Len(sr.loops) <= 1
  /\ \A l \in DOMAIN sr.loops : sr.loops[l].by = 1
  /\ sr.events >= 1 => Len(sr.loops) = 1

C38_Witness ==
  /\ sr.events = MaxSessionReady
  /\ Len(sr.loops) = 1
  /\ sr.passes >= 3

\* C39: once every updatePreferences handler has completed, the preferences
\* file holds the preferences of the most recent updatePreferences.
C39_FileHoldsLatestPreferences ==
  ( /\ pf.handlers # << >>
    /\ \A h \in DOMAIN pf.handlers : pf.handlers[h].pc = "done" )
  => pf.file = pf.prefs

\* C40: retryDownload, prioritizeDownload, downloadProgress, downloadEnded
\* and downloadDiscarded for an id that is not in the store return the state
\* they were given.
C40_UnknownIdIsNoOp ==
  [][( /\ rd'.act.type \in {"retryDownload", "prioritizeDownload",
                            "downloadProgress", "downloadEnded",
                            "downloadDiscarded"}
       /\ rd'.act.id \notin DOMAIN rd.items )
     => /\ rd'.returned = "state"
        /\ rd'.items = rd.items
        /\ rd'.paused = rd.paused]_vars

====
